---------------------------- MODULE Spec2Model ----------------------------
(***************************************************************************)
(* A model of mdmet/dmet.py (class DMET): the symmetry-aware codec between *)
(* the parameter vector and the correlation potential, the constructor,    *)
(* the embedding kernel, the chemical-potential search and the             *)
(* self-consistent driver.                                                 *)
(*                                                                         *)
(* Conventions.  Python lists and numpy vectors are sequences; the Python  *)
(* element s[i] is At(s, i) = s[i+1].  A Norbs x Norbs numpy array is a    *)
(* function over Idx(Norbs) \X Idx(Norbs), indexed from 0 as in the source.*)
(* The collaborators (orthobasis, smithbasis, qcsolvers, scipy.optimize,   *)
(* libdmet) are outside the file: what they return is a nondeterministic   *)
(* choice, and what the kernel obtains from a solver is a token that names *)
(* the call, the fragment and the potential it was computed from.          *)
(***************************************************************************)
EXTENDS Integers, Sequences, FiniteSets, TLC

VARIABLES
    args,        \* the arguments DMET(...) is called with
    dmet,        \* the DMET object: a record of its attributes
    pc,          \* where the program is
    ret,         \* what the last completed call returned or raised
    kc,          \* kernel(): its frame while a call is in flight
    sc,          \* self_consistent(): its frame while a run is in flight
    log          \* what the collaborators were last called with

vars == <<args, dmet, pc, ret, kc, sc, log>>

---------------------------------------------------------------------------
(* Bounds of the model *)

MaxNorbs == 4         \* orbitals: mf.mol.nao_nr() ranges over 1..MaxNorbs
MaxLabel == 2         \* symmetry labels range over 0..MaxLabel
MaxKernelNorbs == 2   \* orbitals of the objects whose kernel is run
MaxCalls == 2         \* kernel() is entered at most MaxCalls times
MaxOcc == 1           \* smith.baths() returns at most MaxOcc occupations

---------------------------------------------------------------------------
(* Python and numpy helpers *)

Idx(n) == 0 .. (n - 1)

At(s, i) == s[i + 1]

Abs(x) == IF x < 0 THEN -x ELSE x

RECURSIVE SumSeq(_)
SumSeq(s) == IF s = <<>> THEN 0 ELSE Head(s) + SumSeq(Tail(s))

\* s[:k]
Upto(s, k) == SubSeq(s, 1, k)

InList(x, s) == \E i \in 1 .. Len(s) : s[i] = x

\* list.remove(x): the first occurrence is removed
ListRemove(s, x) ==
    LET i == CHOOSE j \in 1 .. Len(s) :
                 s[j] = x /\ \A k \in 1 .. (j - 1) : s[k] # x
    IN  SubSeq(s, 1, i - 1) \o SubSeq(s, i + 1, Len(s))

RECURSIVE SortSet(_)
SortSet(S) ==
    IF S = {} THEN <<>>
    ELSE LET m == CHOOSE x \in S : \A y \in S : x <= y
         IN  <<m>> \o SortSet(S \ {m})

\* np.unique(a, return_inverse=True): the sorted distinct values, and for
\* every entry of a the (0-based) position of its value among them
np_unique(a) ==
    LET u == SortSet({a[i] : i \in 1 .. Len(a)})
    IN  [values  |-> u,
         inverse |-> [i \in 1 .. Len(a) |->
                        (CHOOSE j \in 1 .. Len(u) : u[j] = a[i]) - 1]]

\* list(range(n))
Range(n) == [i \in 1 .. n |-> i - 1]

Zeros(n) == [r \in Idx(n), c \in Idx(n) |-> 0]

Transpose(m, n) == [r \in Idx(n), c \in Idx(n) |-> m[c, r]]

\* The True positions of a boolean n x n array in numpy's (row-major) order
RECURSIVE TruePositions(_, _, _)
TruePositions(mask, n, k) ==
    IF k >= n * n THEN <<>>
    ELSE (IF mask[k \div n, k % n] THEN << <<k \div n, k % n>> >> ELSE <<>>)
         \o TruePositions(mask, n, k + 1)

\* a[mask]: the entries at the True positions, in that order
Gather(a, mask, n) ==
    LET pos == TruePositions(mask, n, 0)
    IN  [k \in 1 .. Len(pos) |-> a[pos[k][1], pos[k][2]]]

\* a[mask] = v: the k-th True position receives the k-th entry of v
Scatter(a, mask, v, n) ==
    LET pos == TruePositions(mask, n, 0)
    IN  [r \in Idx(n), c \in Idx(n) |->
            IF mask[r, c]
            THEN v[CHOOSE k \in 1 .. Len(pos) : pos[k] = <<r, c>>]
            ELSE a[r, c]]

\* The length of the slice a:a+size of an axis of n entries
SliceLen(a, size, n) ==
    IF a >= n THEN 0 ELSE IF a + size > n THEN n - a ELSE size

\* u[d:d+size, d:d+size] = u[s:s+size, s:s+size] raises when the two slices
\* differ in shape and the source is not 1 x 1 (which broadcasts)
CopyBlockRaises(n, d, s, size) ==
    /\ SliceLen(d, size, n) # SliceLen(s, size, n)
    /\ SliceLen(s, size, n) # 1

CopyBlock(u, n, d, s, size) ==
    LET dl == SliceLen(d, size, n)
        sl == SliceLen(s, size, n)
    IN  [r \in Idx(n), c \in Idx(n) |->
            IF r \in d .. (d + dl - 1) /\ c \in d .. (d + dl - 1)
            THEN u[s + (IF sl = 1 THEN 0 ELSE r - d),
                   s + (IF sl = 1 THEN 0 ELSE c - d)]
            ELSE u[r, c]]

---------------------------------------------------------------------------
(* DMET.make_imp_size *)

make_imp_size(impCluster) ==
    [f \in 1 .. Len(impCluster) |->
        SumSeq([o \in 1 .. Len(impCluster[f]) |-> Abs(impCluster[f][o])])]


---------------------------------------------------------------------------
(* DMET.make_mask *)

\* The positions the loops of make_mask set to True for a fragment whose
\* block starts at `start`: the diagonal of the block in the diagonal-only
\* fit modes, its upper triangle in every other mode
MaskBlock(SC_CFtype, start, size) ==
    IF SC_CFtype = "diagF" \/ SC_CFtype = "diagFB"
    THEN UNION {{<<start + row, start + row>> : row \in 0 .. localsize}
                    : localsize \in Idx(size)}
    ELSE UNION {UNION {{<<start + row, start + col>> : col \in row .. localsize}
                           : row \in 0 .. localsize}
                    : localsize \in Idx(size)}

\* The first fragment that carries the label frag_ID
FirstWithLabel(self, frag_ID) ==
    CHOOSE frag \in Idx(self.num_impCluster) :
        /\ At(self.symmetry, frag) = frag_ID
        /\ \A g \in Idx(frag) : At(self.symmetry, g) # frag_ID

\* The loop over the fragments, from `fragment` on. st holds themask, the
\* labels not met yet (irred_fragments), redundant, and whether an index was
\* out of the array (IndexError).
RECURSIVE make_mask_loop(_, _, _)
make_mask_loop(self, fragment, st) ==
    IF fragment >= self.num_impCluster \/ st.raised THEN st
    ELSE
      LET frag_ID == At(self.symmetry, fragment)
          start   == SumSeq(Upto(self.imp_size, fragment))
          size    == At(self.imp_size, fragment)
      IN  IF InList(frag_ID, st.irred_fragments)
          THEN LET blk == MaskBlock(self.SC_CFtype, start, size)
               IN  IF \E p \in blk : p[1] >= self.Norbs \/ p[2] >= self.Norbs
                   THEN [st EXCEPT !.raised = TRUE]
                   ELSE make_mask_loop(self, fragment + 1,
                          [themask |-> [r \in Idx(self.Norbs), c \in Idx(self.Norbs)
                                           |-> st.themask[r, c] \/ <<r, c>> \in blk],
                           irred_fragments |-> ListRemove(st.irred_fragments, frag_ID),
                           redundant |-> st.redundant,
                           raised |-> FALSE])
          ELSE LET start2_id == FirstWithLabel(self, frag_ID)
                   start2    == SumSeq(Upto(self.imp_size, start2_id))
               IN  make_mask_loop(self, fragment + 1,
                      [st EXCEPT !.redundant = Append(@, <<start, start2, size>>)])

make_mask(self) ==
    make_mask_loop(self, 0,
        [themask |-> [r \in Idx(self.Norbs), c \in Idx(self.Norbs) |-> FALSE],
         irred_fragments |-> self.irred_fragments,
         redundant |-> <<>>,
         raised |-> FALSE])

---------------------------------------------------------------------------
(* DMET.make_H1 *)

\* The (row, col) pairs in the order of the loops of make_H1
RECURSIVE H1Pairs(_, _, _)
H1Pairs(SC_CFtype, size, row) ==
    IF row >= size THEN <<>>
    ELSE (IF SC_CFtype = "diagF" \/ SC_CFtype = "diagFB"
          THEN << <<row, row>> >>
          ELSE [k \in 1 .. (size - row) |-> <<row, row + k - 1>>])
         \o H1Pairs(SC_CFtype, size, row + 1)

\* The dense operator of one parameter without line 483: 1 only at
\* (start + row, start + col)
H1Dense_UpperOnly(self, start_id, rc) ==
    [r \in Idx(self.Norbs), c \in Idx(self.Norbs) |->
        IF \E i \in 1 .. Len(start_id) :
              <<r, c>> = <<SumSeq(Upto(self.imp_size, start_id[i])) + rc[1],
                          SumSeq(Upto(self.imp_size, start_id[i])) + rc[2]>>
        THEN 1 ELSE 0]

\* The dense operator of one parameter: 1 at (start + row, start + col) and
\* at (start + col, start + row) for the start of every fragment in start_id
H1Dense(self, start_id, rc) ==
    [r \in Idx(self.Norbs), c \in Idx(self.Norbs) |->
        IF \E i \in 1 .. Len(start_id) :
              LET start == SumSeq(Upto(self.imp_size, start_id[i]))
              IN  \/ <<r, c>> = <<start + rc[1], start + rc[2]>>
                  \/ <<r, c>> = <<start + rc[2], start + rc[1]>>
        THEN 1 ELSE 0]

H1OutOfRange(self, start_id, rc) ==
    \E i \in 1 .. Len(start_id) :
        SumSeq(Upto(self.imp_size, start_id[i])) + rc[2] >= self.Norbs

RECURSIVE make_H1_loop(_, _, _)
make_H1_loop(self, fragment, st) ==
    IF fragment >= self.num_impCluster \/ st.raised THEN st
    ELSE
      LET frag_ID == At(self.symmetry, fragment)
      IN  IF InList(frag_ID, st.irred_fragments)
          THEN LET start_id ==
                     IF self.symmetry = <<0>>
                     THEN Range(Len(self.imp_size))
                     ELSE SortSet({frag \in Idx(self.num_impCluster) :
                                      At(self.symmetry, frag) = frag_ID})
                   pairs == H1Pairs(self.SC_CFtype, At(self.imp_size, fragment), 0)
               IN  IF \E k \in 1 .. Len(pairs) : H1OutOfRange(self, start_id, pairs[k])
                   THEN [st EXCEPT !.raised = TRUE]
                   ELSE make_H1_loop(self, fragment + 1,
                          [theH1 |-> st.theH1 \o
                                       [k \in 1 .. Len(pairs) |->
                                           H1Dense(self, start_id, pairs[k])],
                           irred_fragments |-> ListRemove(st.irred_fragments, frag_ID),
                           raised |-> FALSE])
          ELSE make_H1_loop(self, fragment + 1, st)

\* The conversion of theH1 to H1start, H1row, H1col, from operator `count` on
RECURSIVE H1Sparse(_, _, _, _)
H1Sparse(theH1, n, count, acc) ==
    IF count > Len(theH1) THEN acc
    ELSE LET where == TruePositions([r \in Idx(n), c \in Idx(n) |->
                                        theH1[count][r, c] = 1], n, 0)
         IN  H1Sparse(theH1, n, count + 1,
                [H1start |-> Append(acc.H1start, Len(acc.H1row) + Len(where)),
                 H1row   |-> acc.H1row \o [k \in 1 .. Len(where) |-> where[k][1]],
                 H1col   |-> acc.H1col \o [k \in 1 .. Len(where) |-> where[k][2]]])

make_H1(self) ==
    LET st == make_H1_loop(self, 0,
                 [theH1 |-> <<>>, irred_fragments |-> self.irred_fragments,
                  raised |-> FALSE])
        sp == H1Sparse(st.theH1, self.Norbs, 1,
                 [H1start |-> <<0>>, H1row |-> <<>>, H1col |-> <<>>])
    IN  [raised |-> st.raised, theH1 |-> st.theH1,
         H1start |-> sp.H1start, H1row |-> sp.H1row, H1col |-> sp.H1col]

---------------------------------------------------------------------------
(* DMET.make_uvec and DMET.uvec2umat *)

make_uvec(self) == Gather(Zeros(self.Norbs), self.mask, self.Norbs)

\* The translational replication: the blocks it .. len(impCluster) - 1
RECURSIVE TranslationCopies(_, _, _)
TranslationCopies(self, umat, it) ==
    IF it >= Len(self.impCluster) THEN umat
    ELSE LET size == At(self.imp_size, 0)
         IN  TranslationCopies(self,
                 CopyBlock(umat, self.Norbs, it * size, 0, size), it + 1)

\* The replication of the redundant blocks with the rows of the copy taken
\* from the representative's offset and its columns from the copy's own
RECURSIVE RedundantCopies_RowsOnly(_, _, _)
RedundantCopies_RowsOnly(self, umat, b) ==
    IF b > Len(self.redundant) THEN umat
    ELSE LET block == self.redundant[b]
         IN  RedundantCopies_RowsOnly(self,
                 [r \in Idx(self.Norbs), c \in Idx(self.Norbs) |->
                     IF /\ r \in block[1] .. (block[1] + block[3] - 1)
                        /\ c \in block[1] .. (block[1] + block[3] - 1)
                     THEN umat[block[2] + r - block[1], c]
                     ELSE umat[r, c]], b + 1)

\* The replication of the redundant blocks, from block b of the list on
RECURSIVE RedundantCopies(_, _, _)
RedundantCopies(self, umat, b) ==
    IF b > Len(self.redundant) THEN umat
    ELSE LET block == self.redundant[b]
         IN  RedundantCopies(self,
                 CopyBlock(umat, self.Norbs, block[1], block[2], block[3]), b + 1)

\* uvec2umat without the second `umat[self.mask] = uvec`: only the transpose
\* of the scattered matrix is replicated
uvec2umat_NoReapply(self, uvec) ==
    LET first      == Scatter(Zeros(self.Norbs), self.mask, uvec, self.Norbs)
        transposed == Transpose(first, self.Norbs)
    IN  IF self.symmetry = <<0>>
        THEN TranslationCopies(self, transposed, 1)
        ELSE IF self.irred_size < self.num_impCluster
             THEN RedundantCopies(self, transposed, 1)
             ELSE transposed

\* umat[mask] = uvec; umat = umat.T; umat[mask] = uvec, then the replication
uvec2umat(self, uvec) ==
    LET first      == Scatter(Zeros(self.Norbs), self.mask, uvec, self.Norbs)
        transposed == Transpose(first, self.Norbs)
        second     == Scatter(transposed, self.mask, uvec, self.Norbs)
    IN  IF self.symmetry = <<0>>
        THEN TranslationCopies(self, second, 1)
        ELSE IF self.irred_size < self.num_impCluster
             THEN RedundantCopies(self, second, 1)
             ELSE second

\* Whether a block assignment of uvec2umat raises (ValueError: the slices
\* differ in shape)
uvec2umat_raises(self) ==
    IF self.symmetry = <<0>>
    THEN \E it \in 1 .. (Len(self.impCluster) - 1) :
            CopyBlockRaises(self.Norbs, it * At(self.imp_size, 0), 0,
                            At(self.imp_size, 0))
    ELSE /\ self.irred_size < self.num_impCluster
         /\ \E b \in 1 .. Len(self.redundant) :
               CopyBlockRaises(self.Norbs, self.redundant[b][1],
                               self.redundant[b][2], self.redundant[b][3])

---------------------------------------------------------------------------
(* DMET.__init__ *)

solver_list == {"RHF", "CASCI", "CASSCF", "DMRG", "CCSD"}

SC_maxcycle_default == 200

\* SC_threshold = 1e-5: the potential is counted in units of 1e-5
SC_threshold == 1

NoObject == [constructed |-> FALSE]

\* The attributes set up to the point where the solver is checked; `a` are
\* the arguments.  symmetry is [kind |-> "None" | "Translation" | "list",
\* labels]; solver is [kind |-> "str" | "list", names].
InitSymmetry(a) ==
    LET imp_size == make_imp_size(a.impCluster)
        n        == Len(a.impCluster)
    IN  CASE a.symmetry.kind = "None" ->
               [raised |-> "", num_impCluster |-> n, symmetry |-> Range(n)]
          [] a.symmetry.kind = "Translation" ->
               IF n = 0 THEN [raised |-> "IndexError"]
               ELSE IF At(imp_size, 0) = 0 \/ a.Norbs % At(imp_size, 0) # 0
                    THEN [raised |-> "AssertionError"]
                    ELSE [raised |-> "", num_impCluster |-> 1, symmetry |-> <<0>>]
          [] OTHER ->
               IF Len(a.symmetry.labels) # n
               THEN [raised |-> "AssertionError"]
               ELSE [raised |-> "", num_impCluster |-> n,
                     symmetry |-> a.symmetry.labels]

\* The solver check: a list is checked at the positions the labels of
\* irred_fragments index, a string against solver_list
InitSolver(a, num_impCluster, irred_fragments) ==
    IF a.solver.kind = "list"
    THEN IF Len(a.solver.names) # num_impCluster
         THEN [raised |-> "AssertionError"]
         ELSE IF \E i \in 1 .. Len(irred_fragments) :
                    irred_fragments[i] >= Len(a.solver.names)
              THEN [raised |-> "IndexError"]
              ELSE IF \E i \in 1 .. Len(irred_fragments) :
                         At(a.solver.names, irred_fragments[i]) \notin solver_list
                   THEN [raised |-> "AssertionError"]
                   ELSE [raised |-> "", solver |-> a.solver.names]
    ELSE IF a.solver.names[1] \notin solver_list
         THEN [raised |-> "AssertionError"]
         ELSE [raised |-> "",
               solver |-> [i \in 1 .. num_impCluster |-> a.solver.names[1]]]

DMET_init(a) ==
    LET sy == InitSymmetry(a)
    IN  IF sy.raised # "" THEN [raised |-> sy.raised]
        ELSE
        LET un == np_unique(sy.symmetry)
            so == InitSolver(a, sy.num_impCluster, un.values)
        IN  IF so.raised # "" THEN [raised |-> so.raised]
            ELSE
            LET s1 == [Norbs |-> a.Norbs, impCluster |-> a.impCluster,
                       num_impCluster |-> sy.num_impCluster,
                       imp_size |-> make_imp_size(a.impCluster),
                       symmetry |-> sy.symmetry,
                       irred_fragments |-> un.values,
                       SC_CFtype |-> a.SC_CFtype]
                mk == make_mask(s1)
                s2 == [Norbs |-> a.Norbs, impCluster |-> a.impCluster,
                       num_impCluster |-> sy.num_impCluster,
                       imp_size |-> make_imp_size(a.impCluster),
                       symmetry |-> sy.symmetry,
                       irred_fragments |-> un.values,
                       SC_CFtype |-> a.SC_CFtype,
                       mask |-> mk.themask]
                h1 == make_H1(s1)
            IN  IF mk.raised \/ h1.raised THEN [raised |-> "IndexError"]
                ELSE [raised |-> "",
                      obj |-> [constructed |-> TRUE,
                               Norbs |-> a.Norbs,
                               Nelecs |-> a.Nelecs,
                               numPairs |-> a.Nelecs \div 2,
                               impCluster |-> a.impCluster,
                               num_impCluster |-> sy.num_impCluster,
                               imp_size |-> make_imp_size(a.impCluster),
                               sd_type |-> a.smith_decomposition_method,
                               single_embedding |-> FALSE,
                               symmetry |-> sy.symmetry,
                               irred_fragments |-> un.values,
                               inverse_indices |-> un.inverse,
                               irred_size |-> Len(un.values),
                               solver |-> so.solver,
                               SC_method |-> "BFGS",
                               SC_threshold |-> SC_threshold,
                               SC_maxcycle |-> SC_maxcycle_default,
                               SC_CFtype |-> a.SC_CFtype,
                               SC_damping |-> 0,
                               mask |-> mk.themask,
                               redundant |-> mk.redundant,
                               H1start |-> h1.H1start,
                               H1row |-> h1.H1row,
                               H1col |-> h1.H1col,
                               uvec |-> make_uvec(s2),
                               Nterms |-> Len(make_uvec(s2)),
                               chempot |-> 0,
                               emb_1RDM |-> <<>>,
                               emb_orbs |-> <<>>,
                               fragment_energies |-> <<>>,
                               fragment_nelecs |-> <<>>,
                               Energy_total |-> "None"]]

---------------------------------------------------------------------------
(* The arguments the model constructs DMET objects from *)

\* The ways to cut n orbitals into consecutive fragments: the fragment sizes
Compositions(n) ==
    {s \in UNION {[1 .. k -> 1 .. n] : k \in 1 .. n} : SumSeq(s) = n}

\* impCluster for consecutive fragments of these sizes: fragment f labels
\* its own orbitals 1 and every other orbital 0
ContiguousCluster(sizes) ==
    [f \in 1 .. Len(sizes) |->
        [o \in 1 .. SumSeq(sizes) |->
            IF /\ SumSeq(Upto(sizes, f - 1)) < o
               /\ o <= SumSeq(Upto(sizes, f))
            THEN 1 ELSE 0]]

FitModes == {"FB", "diagFB", "F", "diagF"}

SymNone == [kind |-> "None", labels |-> <<>>]
SymTranslation == [kind |-> "Translation", labels |-> <<>>]
SymList(labels) == [kind |-> "list", labels |-> labels]

SolverStr(name) == [kind |-> "str", names |-> <<name>>]
SolverList(names) == [kind |-> "list", names |-> names]

\* Fragments that the symmetry declares equivalent have the same size
SymmetryConsistent(a) ==
    LET imp_size == make_imp_size(a.impCluster)
    IN  CASE a.symmetry.kind = "None" -> TRUE
          [] a.symmetry.kind = "Translation" ->
               \A f \in 1 .. Len(imp_size) : imp_size[f] = imp_size[1]
          [] OTHER ->
               /\ Len(a.symmetry.labels) = Len(imp_size)
               /\ \A f, g \in 1 .. Len(imp_size) :
                     a.symmetry.labels[f] = a.symmetry.labels[g]
                        => imp_size[f] = imp_size[g]

\* Every list of k labels
LabelLists(k) == [1 .. k -> 0 .. MaxLabel]

\* The parameter vectors of length n the model decodes: the zero vector, the
\* unit vectors, and two vectors whose entries are all different
UvecSamples(n) ==
    {[k \in 1 .. n |-> 0], [k \in 1 .. n |-> k], [k \in 1 .. n |-> n + 1 - k]}
    \cup {[k \in 1 .. n |-> IF k = j THEN 1 ELSE 0] : j \in 1 .. n}

NoFrame == [active |-> FALSE]
NoLog == [none |-> TRUE]
NoRet == [op |-> "", raised |-> ""]

---------------------------------------------------------------------------
(* The constructor on its own: SpecCtor *)

CtorSolvers(k) ==
    {SolverStr(n) : n \in {"RHF", "CCSD", "UHF"}}
    \cup {SolverList(l) : l \in [1 .. k -> {"RHF", "UHF"}]}

CtorSymmetries(k) ==
    {SymNone, SymTranslation}
    \cup {SymList(l) : l \in LabelLists(k - 1) \cup LabelLists(k) \cup LabelLists(k + 1)}

\* The arguments for consecutive fragments of the given sizes
MakeArgs(sizes, Nelecs, sym, sd, cf, so) ==
    [Norbs |-> SumSeq(sizes), Nelecs |-> Nelecs,
     impCluster |-> ContiguousCluster(sizes),
     symmetry |-> sym, smith_decomposition_method |-> sd,
     SC_CFtype |-> cf, solver |-> so]

InitCtor ==
    /\ \E n \in 1 .. MaxNorbs :
         \E sizes \in Compositions(n) :
           \E sym \in CtorSymmetries(Len(sizes)), cf \in FitModes \cup {"B"},
              so \in CtorSolvers(Len(sizes)) :
                args = MakeArgs(sizes, 2, sym, "OED", cf, so)
    /\ dmet = NoObject
    /\ pc = "new"
    /\ ret = NoRet
    /\ kc = NoFrame
    /\ sc = NoFrame
    /\ log = NoLog

\* DMET(mf, impCluster, symmetry, ...)
Construct ==
    /\ pc = "new"
    /\ LET r == DMET_init(args)
       IN  IF r.raised = ""
           THEN /\ dmet' = r.obj
                /\ pc' = "idle"
                /\ ret' = [op |-> "__init__", raised |-> ""]
           ELSE /\ dmet' = NoObject
                /\ pc' = "init_failed"
                /\ ret' = [op |-> "__init__", raised |-> r.raised]
    /\ UNCHANGED <<args, kc, sc, log>>

NextCtor == Construct

SpecCtor == InitCtor /\ [][NextCtor]_vars

---------------------------------------------------------------------------
(* The codec on its own: SpecCodec *)

CodecSymmetries(k) ==
    {SymNone, SymTranslation} \cup {SymList(l) : l \in LabelLists(k)}

InitCodec ==
    /\ \E n \in 1 .. MaxNorbs :
         \E sizes \in Compositions(n) :
           \E sym \in CodecSymmetries(Len(sizes)), cf \in FitModes :
                args = MakeArgs(sizes, 2, sym, "OED", cf, SolverStr("RHF"))
    /\ SymmetryConsistent(args)
    /\ LET r == DMET_init(args)
       IN  r.raised = "" /\ dmet = r.obj
    /\ pc = "idle"
    /\ ret = NoRet
    /\ kc = NoFrame
    /\ sc = NoFrame
    /\ log = NoLog

\* dmet.uvec2umat(uvec)
Call_uvec2umat ==
    /\ pc = "idle"
    /\ \E uvec \in UvecSamples(dmet.Nterms) :
          ret' = IF uvec2umat_raises(dmet)
                 THEN [op |-> "uvec2umat", raised |-> "ValueError", arg |-> uvec]
                 ELSE [op |-> "uvec2umat", raised |-> "", arg |-> uvec,
                       val |-> uvec2umat(dmet, uvec)]
    /\ UNCHANGED <<args, dmet, pc, kc, sc, log>>

\* dmet.make_uvec()
Call_make_uvec ==
    /\ pc = "idle"
    /\ ret' = [op |-> "make_uvec", raised |-> "", val |-> make_uvec(dmet)]
    /\ UNCHANGED <<args, dmet, pc, kc, sc, log>>

NextCodec == Call_uvec2umat \/ Call_make_uvec

SpecCodec == InitCodec /\ [][NextCodec]_vars

---------------------------------------------------------------------------
(* DMET.kernel *)

\* Occupations are counted in thousandths of an electron
core_cutoff == 10

TwoElectrons == 2000

\* int(round(x)) of x thousandths: Python rounds a half to the even integer
RoundToInt(x) ==
    LET q == x \div 1000
        r == x % 1000
    IN  IF r < 500 THEN q
        ELSE IF r > 500 THEN q + 1
        ELSE IF q % 2 = 0 THEN q ELSE q + 1

\* The loop over envOrbs_or_core_eigenvals, from entry cnt on: an entry below
\* the cutoff becomes 0, an entry above 2 - cutoff becomes 2, any other entry
\* stops the kernel (assert(0 == 1))
RECURSIVE SnapOccupations(_, _)
SnapOccupations(eigenvals, cnt) ==
    IF cnt >= Len(eigenvals) THEN [raised |-> FALSE, eigenvals |-> eigenvals]
    ELSE IF At(eigenvals, cnt) < core_cutoff
         THEN SnapOccupations([eigenvals EXCEPT ![cnt + 1] = 0], cnt + 1)
         ELSE IF At(eigenvals, cnt) > TwoElectrons - core_cutoff
              THEN SnapOccupations([eigenvals EXCEPT ![cnt + 1] = TwoElectrons],
                                   cnt + 1)
              ELSE [raised |-> TRUE, eigenvals |-> eigenvals,
                    offending |-> At(eigenvals, cnt)]

\* What a solver returns is named by the kernel call and the fragment whose
\* embedding problem it solved
Token(call, frag) == [bound |-> TRUE, call |-> call, frag |-> frag]

Unbound == [bound |-> FALSE, call |-> 0, frag |-> 0]

\* The solvers that kernel() dispatches to a qcsolver method; for every other
\* name the branch is `pass`
Implemented == {"RHF", "CASCI", "CASSCF"}

\* An exception leaves every frame; the object keeps what was assigned
Raise(exc, where, info) ==
    /\ pc' = "idle"
    /\ kc' = NoFrame
    /\ sc' = NoFrame
    /\ ret' = [op |-> "raise", raised |-> exc, where |-> where, info |-> info]

\* kernel() entered without emptying self.emb_1RDM and self.fragment_nelecs
KernelEnter_NoReset(chempot, single_embedding, caller, frame) ==
    /\ dmet' = [dmet EXCEPT !.fragment_energies = <<>>, !.emb_orbs = <<>>]
    /\ pc' = "kernel"
    /\ kc' = [active |-> TRUE, chempot |-> chempot,
              single_embedding |-> single_embedding, caller |-> caller,
              call |-> log.ncalls + 1, it |-> 0,
              ImpEnergy |-> Unbound, E_emb |-> Unbound, RDM1 |-> Unbound,
              returned |-> <<>>, eigenvals |-> <<>>, Nelec_in_imp |-> 0]
    /\ log' = [log EXCEPT !.ncalls = @ + 1,
                          !.kernel_umat = uvec2umat(dmet, dmet.uvec)]
    /\ ret' = NoRet
    /\ sc' = frame

\* Lines 126-131: the four collections are emptied, then the mean-field
\* problem is solved at uvec2umat(self.uvec).  frame is the frame of
\* self_consistent() below the call, if there is one.
KernelEnter(chempot, single_embedding, caller, frame) ==
    /\ dmet' = [dmet EXCEPT !.fragment_energies = <<>>, !.fragment_nelecs = <<>>,
                            !.emb_1RDM = <<>>, !.emb_orbs = <<>>]
    /\ IF uvec2umat_raises(dmet)
       THEN /\ Raise("ValueError", "kernel", <<>>)
            /\ log' = log
       ELSE /\ pc' = "kernel"
            /\ kc' = [active |-> TRUE, chempot |-> chempot,
                      single_embedding |-> single_embedding, caller |-> caller,
                      call |-> log.ncalls + 1, it |-> 0,
                      ImpEnergy |-> Unbound, E_emb |-> Unbound, RDM1 |-> Unbound,
                      returned |-> <<>>, eigenvals |-> <<>>, Nelec_in_imp |-> 0]
            /\ log' = [log EXCEPT !.ncalls = @ + 1,
                                  !.kernel_umat = uvec2umat(dmet, dmet.uvec)]
            /\ ret' = NoRet
            /\ sc' = frame

\* One pass of the loop `for fragment in self.irred_fragments` (lines
\* 133-196).  numBathOrbs and occ are what smith.baths() returns.
KernelFragment(numBathOrbs, occ) ==
    LET fragment == At(dmet.irred_fragments, kc.it)
    IN  IF fragment >= Len(dmet.impCluster)
        THEN /\ Raise("IndexError", "kernel", <<fragment>>)
             /\ UNCHANGED <<dmet, log>>
        ELSE
        LET numImpOrbs  == At(dmet.imp_size, fragment)
            Norb_in_imp == numImpOrbs + numBathOrbs
            snap        == SnapOccupations(occ, 0)
            Nelec_in_imp ==
                IF dmet.sd_type = "OED"
                THEN RoundToInt(dmet.Nelecs * 1000 - SumSeq(snap.eigenvals))
                ELSE 2 * numImpOrbs
            solver == IF fragment >= Len(dmet.solver) THEN "IndexError"
                      ELSE At(dmet.solver, fragment)
            solved == solver \in Implemented
            ImpEnergy == IF solved THEN Token(kc.call, fragment) ELSE kc.ImpEnergy
            E_emb     == IF solved THEN Token(kc.call, fragment) ELSE kc.E_emb
            RDM1      == IF solved THEN Token(kc.call, fragment) ELSE kc.RDM1
        IN  IF Norb_in_imp > dmet.Norbs
            THEN /\ Raise("AssertionError", "Norb_in_imp", <<Norb_in_imp>>)
                 /\ UNCHANGED <<dmet, log>>
            ELSE IF dmet.sd_type = "OED" /\ snap.raised
            THEN /\ Raise("AssertionError", "occupation", occ)
                 /\ UNCHANGED <<dmet, log>>
            ELSE IF dmet.sd_type \notin {"OED", "overlap"}
            THEN /\ Raise("UnboundLocalError", "Nelec_in_imp", <<>>)
                 /\ UNCHANGED <<dmet, log>>
            ELSE IF solver = "IndexError"
            THEN /\ Raise("IndexError", "solver", <<fragment>>)
                 /\ UNCHANGED <<dmet, log>>
            ELSE IF ~ (IF kc.single_embedding THEN E_emb.bound ELSE ImpEnergy.bound)
            THEN /\ Raise("UnboundLocalError", "solver", <<fragment>>)
                 /\ UNCHANGED <<dmet, log>>
            ELSE
              /\ dmet' = [dmet EXCEPT
                    !.fragment_energies =
                        IF kc.single_embedding
                        THEN @ \o <<E_emb, [core1RDM_ortho |-> fragment],
                                    [Nelec_in_environment |-> fragment]>>
                        ELSE Append(@, ImpEnergy),
                    !.emb_1RDM = Append(@, RDM1),
                    !.emb_orbs = Append(@, Token(kc.call, fragment)),
                    !.fragment_nelecs = Append(@, RDM1)]
              /\ kc' = [kc EXCEPT !.it = @ + 1, !.ImpEnergy = ImpEnergy,
                                  !.E_emb = E_emb, !.RDM1 = RDM1,
                                  !.returned = occ,
                                  !.eigenvals = IF dmet.sd_type = "OED"
                                                THEN snap.eigenvals ELSE occ,
                                  !.Nelec_in_imp = Nelec_in_imp]
              /\ UNCHANGED <<pc, sc, ret, log>>

\* a[self.inverse_indices]
Broadcast(a, inverse_indices) ==
    [i \in 1 .. Len(inverse_indices) |-> At(a, inverse_indices[i])]

\* Lines 198-205: the broadcast to the full fragment list and the value
\* kernel() returns
KernelFinish ==
    [dmet EXCEPT
        !.fragment_energies =
            IF kc.single_embedding THEN @
            ELSE Broadcast(@, dmet.inverse_indices),
        !.fragment_nelecs = Broadcast(@, dmet.inverse_indices)]

KernelReturnValue(d) ==
    [nelecs |-> d.fragment_nelecs,
     multiplicty |-> IF d.symmetry = <<0>> THEN Len(d.imp_size) ELSE 1]

---------------------------------------------------------------------------
(* What the collaborators may return *)

\* Occupations returned by smith.baths(), in thousandths: below the lower
\* cutoff, on it, between the cutoffs, on the upper cutoff, above it
OccValues == {9, 10, 1000, 1990, 1991}

OccSamples == UNION {[1 .. k -> OccValues] : k \in 0 .. MaxOcc}

ChemSamples == {0, 1}

\* numBathOrbs as returned by smith.baths(): the count asked for (numImpOrbs),
\* or the count of orbitals left outside the fragment when that is smaller
BathCounts ==
    LET fragment == At(dmet.irred_fragments, kc.it)
    IN  IF fragment >= Len(dmet.impCluster) THEN {0}
        ELSE LET numImpOrbs == At(dmet.imp_size, fragment)
             IN  {numImpOrbs,
                  IF dmet.Norbs - numImpOrbs < numImpOrbs
                  THEN dmet.Norbs - numImpOrbs ELSE numImpOrbs}

---------------------------------------------------------------------------
(* The operations on a constructed object *)

\* dmet.kernel(chempot, single_embedding), called by the user
Call_kernel ==
    /\ pc = "idle"
    /\ log.ncalls < MaxCalls
    /\ \E chempot \in ChemSamples, single_embedding \in BOOLEAN :
          KernelEnter(chempot, single_embedding, "api", sc)
    /\ UNCHANGED args

\* kernel(): the next irreducible fragment
kernel_fragment ==
    /\ pc = "kernel"
    /\ kc.it < dmet.irred_size
    /\ \E numBathOrbs \in BathCounts :
         \E occ \in (IF dmet.sd_type = "OED" THEN OccSamples ELSE {<<>>}) :
            KernelFragment(numBathOrbs, occ)
    /\ UNCHANGED args

\* kernel() called by the user returns
kernel_return ==
    /\ pc = "kernel"
    /\ kc.it >= dmet.irred_size
    /\ kc.caller = "api"
    /\ dmet' = KernelFinish
    /\ pc' = "idle"
    /\ kc' = NoFrame
    /\ ret' = [op |-> "kernel", raised |-> "", call |-> kc.call,
               single_embedding |-> kc.single_embedding,
               val |-> KernelReturnValue(KernelFinish)]
    /\ UNCHANGED <<args, sc, log>>

\* What the collaborators were called with: the count of kernel calls, the
\* potential of the last mean-field solve, the count of evaluations of the
\* running optimize.newton, and the seed of the last optimize.minimize
InitLog(d) ==
    [ncalls |-> 0, kernel_umat |-> Zeros(d.Norbs), newton_evals |-> 0,
     minimize_x0 |-> <<>>]

\* No symmetry, 'Translation', and every list of the labels 0 and 1
KernelSymmetries(k) ==
    {SymNone, SymTranslation} \cup {SymList(l) : l \in [1 .. k -> {0, 1}]}

KernelSolvers(k) ==
    {SolverStr(n) : n \in {"RHF", "CCSD"}}
    \cup {SolverList(l) : l \in [1 .. k -> {"RHF", "DMRG"}]}

InitKernel ==
    /\ \E n \in 1 .. MaxKernelNorbs :
         \E sizes \in Compositions(n) :
           \E sym \in KernelSymmetries(Len(sizes)), sd \in {"OED", "overlap"},
              so \in KernelSolvers(Len(sizes)) \cup KernelSolvers(1) :
                args = MakeArgs(sizes, 4, sym, sd, "FB", so)
    /\ SymmetryConsistent(args)
    /\ LET r == DMET_init(args)
       IN  r.raised = "" /\ dmet = r.obj /\ log = InitLog(r.obj)
    /\ pc = "idle"
    /\ ret = NoRet
    /\ kc = NoFrame
    /\ sc = NoFrame

NextKernel == Call_kernel \/ kernel_fragment \/ kernel_return

SpecKernel == InitKernel /\ [][NextKernel]_vars

---------------------------------------------------------------------------
(* DMET.one_shot, DMET.self_consistent and the cost functions *)

MaxCycle == 2

\* np.trace(umat)
RECURSIVE TraceFrom(_, _, _)
TraceFrom(umat, n, k) ==
    IF k >= n THEN 0 ELSE umat[k, k] + TraceFrom(umat, n, k + 1)

\* Line 265: umat - np.eye(n) * np.average(np.diag(umat)), times n so that the
\* entries stay whole numbers.  The potentials of self_consistent() are kept
\* in this scale.
GaugeFixed(umat, n) ==
    [p \in Idx(n) \X Idx(n) |->
        n * umat[p[1], p[2]] - (IF p[1] = p[2] THEN TraceFrom(umat, n, 0) ELSE 0)]

\* Line 266: np.linalg.norm(umat_old - umat), squared
RECURSIVE NormSqFrom(_, _, _, _)
NormSqFrom(a, b, n, k) ==
    IF k >= n * n THEN 0
    ELSE LET r == k \div n
             c == k % n
         IN  (a[r, c] - b[r, c]) * (a[r, c] - b[r, c]) + NormSqFrom(a, b, n, k + 1)

\* Line 267: self.SC_damping * umat_old + (1.0 - self.SC_damping) * umat
Damped(d, umat_old, umat) ==
    [p \in Idx(d.Norbs) \X Idx(d.Norbs) |->
        d.SC_damping * umat_old[p] + (1 - d.SC_damping) * umat[p]]

\* The test of line 269 with the comparison turned around
SC_converged_Flipped(u_diff_sq, d) ==
    u_diff_sq >= (d.SC_threshold * d.Norbs) * (d.SC_threshold * d.Norbs)

\* Line 269: u_diff <= self.SC_threshold, on the square of the scaled norm
SC_converged(u_diff_sq, d) ==
    u_diff_sq <= (d.SC_threshold * d.Norbs) * (d.SC_threshold * d.Norbs)

\* one_shot() up to its first call of a collaborator (lines 213-215, 228)
OneShotEnter(frame) ==
    IF dmet.single_embedding
    THEN IF Len(dmet.impCluster) # 1
         THEN /\ Raise("AssertionError", "one_shot", <<>>)
              /\ UNCHANGED <<dmet, log>>
         ELSE KernelEnter(0, TRUE, "one_shot", frame)
    ELSE /\ pc' = "newton"
         /\ kc' = NoFrame
         /\ sc' = frame
         /\ log' = [log EXCEPT !.newton_evals = 0]
         /\ ret' = NoRet
         /\ dmet' = dmet

\* one_shot() from line 233 on, for the object d it has reached: it returns
\* to the user, or to self_consistent(), which goes on to optimize.minimize
\* seeded with self.uvec (lines 258-263)
OneShotReturn(d) ==
    /\ dmet' = d
    /\ IF ~ sc.active
       THEN /\ pc' = "idle"
            /\ kc' = NoFrame
            /\ ret' = [op |-> "one_shot", raised |-> ""]
            /\ UNCHANGED <<sc, log>>
       ELSE IF d.SC_method \in {"BFGS", "CG"}
       THEN /\ pc' = "minimize"
            /\ kc' = NoFrame
            /\ log' = [log EXCEPT !.minimize_x0 = d.uvec]
            /\ ret' = NoRet
            /\ sc' = sc
       ELSE /\ Raise("UnboundLocalError", "result", <<>>)
            /\ log' = log

\* Lines 318-346 and 348-375: what stops rdm_diff and rdm_diff_gradient
rdm_diff_raises(d) ==
    IF uvec2umat_raises(d) THEN "ValueError"
    ELSE IF d.irred_size = 0 THEN ""
    ELSE IF Len(d.emb_orbs) = 0 THEN "IndexError"
    ELSE IF d.SC_CFtype \notin FitModes THEN "UnboundLocalError"
    ELSE IF Len(d.emb_orbs) < d.irred_size \/ Len(d.emb_1RDM) < d.irred_size
         THEN "IndexError"
    ELSE ""

\* Lines 318-346: per irreducible fragment, the mean-field density of
\* uvec2umat(uvec) in the stored embedding basis against the stored
\* correlated density, cut to the fragment rows in the modes F and diagF
rdm_diff(d, uvec) ==
    [j \in 1 .. d.irred_size |->
        [umat |-> uvec2umat(d, uvec),
         transform_mat |-> d.emb_orbs[j],
         corr_1RDM |-> d.emb_1RDM[j],
         cut |-> IF d.SC_CFtype \in {"F", "diagF"} THEN d.imp_size[j] ELSE -1,
         diag |-> d.SC_CFtype \in {"diagFB", "diagF"}]]

\* costfunction() that keeps the vector it was given in self.uvec
costfunction_StoresUvec(d, uvec) ==
    IF rdm_diff_raises(d) # ""
    THEN [obj |-> d,
          ret |-> [op |-> "raise", raised |-> rdm_diff_raises(d),
                   where |-> "costfunction", info |-> uvec]]
    ELSE [obj |-> [d EXCEPT !.uvec = uvec],
          ret |-> [op |-> "costfunction", raised |-> "", arg |-> uvec,
                   val |-> Broadcast(rdm_diff(d, uvec), d.inverse_indices)]]

\* Lines 284-294: the object after the call and what the call gives back
costfunction(d, uvec) ==
    IF rdm_diff_raises(d) # ""
    THEN [obj |-> d,
          ret |-> [op |-> "raise", raised |-> rdm_diff_raises(d),
                   where |-> "costfunction", info |-> uvec]]
    ELSE [obj |-> d,
          ret |-> [op |-> "costfunction", raised |-> "", arg |-> uvec,
                   val |-> Broadcast(rdm_diff(d, uvec), d.inverse_indices)]]

\* Lines 296-315: one entry per term of the parameter vector
costfunction_gradient(d, uvec) ==
    IF rdm_diff_raises(d) # ""
    THEN [obj |-> d,
          ret |-> [op |-> "raise", raised |-> rdm_diff_raises(d),
                   where |-> "costfunction_gradient", info |-> uvec]]
    ELSE [obj |-> d,
          ret |-> [op |-> "costfunction_gradient", raised |-> "", arg |-> uvec,
                   val |-> [u \in 1 .. d.Nterms |->
                              Broadcast(rdm_diff(d, uvec), d.inverse_indices)]]]

\* The rest of one pass of the loop of self_consistent() (lines 264-269) for
\* the vector x that optimize.minimize returned, and then either the end of
\* self_consistent() or the next pass up to its first call of a collaborator
LoopTail(x) ==
    LET n      == dmet.Norbs
        umat   == GaugeFixed(uvec2umat(dmet, x), n)
        u_diff == NormSqFrom(sc.umat_old, umat, n, 0)
        damped == Damped(dmet, sc.umat_old, umat)
    IN  IF SC_converged(u_diff, dmet) \/ sc.cycle + 1 >= dmet.SC_maxcycle
        THEN /\ pc' = "idle"
             /\ kc' = NoFrame
             /\ sc' = NoFrame
             /\ ret' = [op |-> "self_consistent", raised |-> "",
                        cycles |-> sc.cycle + 1, u_diff |-> u_diff,
                        umat |-> damped]
             /\ UNCHANGED <<dmet, log>>
        ELSE OneShotEnter([sc EXCEPT !.cycle = @ + 1, !.umat = damped,
                                     !.umat_old = damped, !.u_diff = u_diff])

\* No symmetry, 'Translation', and one label for all fragments
DriverSymmetries(k) ==
    {SymNone, SymTranslation, SymList([i \in 1 .. k |-> 0])}

\* The vectors the optimizer tries and returns: the zero vector, a vector
\* whose entries are all different, and the first unit vector
TrialVectors(n) ==
    {[k \in 1 .. n |-> 0], [k \in 1 .. n |-> k],
     [k \in 1 .. n |-> IF k = 1 THEN 1 ELSE 0]}

\* dmet.one_shot(), called by the user
Call_one_shot ==
    /\ pc = "idle"
    /\ log.ncalls < MaxCalls
    /\ OneShotEnter(sc)
    /\ UNCHANGED args

\* optimize.newton evaluates nelecs_costfunction(chempot) (line 278)
nelecs_costfunction ==
    /\ pc = "newton"
    /\ log.ncalls < MaxCalls
    /\ \E chempot \in ChemSamples : KernelEnter(chempot, FALSE, "newton", sc)
    /\ UNCHANGED args

\* kernel() returns to nelecs_costfunction(), which returns to optimize.newton
\* (lines 278-282)
kernel_return_newton ==
    /\ pc = "kernel"
    /\ kc.it >= dmet.irred_size
    /\ kc.caller = "newton"
    /\ dmet' = KernelFinish
    /\ pc' = "newton"
    /\ kc' = NoFrame
    /\ log' = [log EXCEPT !.newton_evals = @ + 1]
    /\ ret' = [op |-> "nelecs_costfunction", raised |-> "", call |-> kc.call,
               val |-> [Nelec_dmet |-> KernelReturnValue(KernelFinish),
                        Nelec_target |-> dmet.Nelecs]]
    /\ UNCHANGED <<args, sc>>

\* optimize.newton returns a root after one evaluation or more; one_shot()
\* stores it and the total energy (lines 228-233)
newton_return ==
    /\ pc = "newton"
    /\ log.newton_evals >= 1
    /\ \E root \in ChemSamples :
          OneShotReturn([dmet EXCEPT
              !.chempot = root,
              !.Energy_total =
                  [sum |-> dmet.fragment_energies,
                   multiplicty |-> IF dmet.symmetry = <<0>>
                                   THEN Len(dmet.imp_size) ELSE 1]])
    /\ UNCHANGED args

\* optimize.newton gives up: RuntimeError out of one_shot()
newton_raise ==
    /\ pc = "newton"
    /\ log.newton_evals >= 1
    /\ Raise("RuntimeError", "newton", <<>>)
    /\ UNCHANGED <<args, dmet, log>>

\* kernel(0.0, True) returns to one_shot() (lines 216-226, 233)
kernel_return_one_shot ==
    /\ pc = "kernel"
    /\ kc.it >= dmet.irred_size
    /\ kc.caller = "one_shot"
    /\ LET d == KernelFinish
       IN  IF Len(d.fragment_energies) < 3 \/ Len(d.emb_1RDM) < 1
           THEN /\ Raise("IndexError", "one_shot", <<>>)
                /\ dmet' = d
                /\ log' = log
           ELSE OneShotReturn([d EXCEPT
                    !.fragment_nelecs =
                        [trace |-> d.emb_1RDM[1],
                         Nelec_in_environment |-> d.fragment_energies[3]],
                    !.Energy_total =
                        [E_embedding |-> d.fragment_energies[1],
                         orthoOED_core |-> d.fragment_energies[2]]])
    /\ UNCHANGED args

\* dmet.self_consistent(), called by the user, up to the first call of a
\* collaborator (lines 245-254)
Call_self_consistent ==
    /\ pc = "idle"
    /\ log.ncalls < MaxCalls
    /\ IF dmet.SC_maxcycle <= 0
       THEN /\ ret' = [op |-> "self_consistent", raised |-> "", cycles |-> 0,
                       u_diff |-> "1.0", umat |-> Zeros(dmet.Norbs)]
            /\ UNCHANGED <<dmet, pc, kc, sc, log>>
       ELSE OneShotEnter([active |-> TRUE, cycle |-> 0,
                          umat |-> Zeros(dmet.Norbs),
                          umat_old |-> Zeros(dmet.Norbs), u_diff |-> "1.0"])
    /\ UNCHANGED args

\* An evaluation of costfunction(uvec), by optimize.minimize or by the user
Call_costfunction ==
    /\ pc \in {"idle", "minimize"}
    /\ \E uvec \in TrialVectors(dmet.Nterms) :
          LET r == costfunction(dmet, uvec)
          IN  /\ dmet' = r.obj
              /\ ret' = r.ret
              /\ IF r.ret.raised # ""
                 THEN pc' = "idle" /\ kc' = NoFrame /\ sc' = NoFrame
                 ELSE UNCHANGED <<pc, kc, sc>>
    /\ UNCHANGED <<args, log>>

\* An evaluation of costfunction_gradient(uvec), by optimize.minimize or by
\* the user
Call_costfunction_gradient ==
    /\ pc \in {"idle", "minimize"}
    /\ \E uvec \in TrialVectors(dmet.Nterms) :
          LET r == costfunction_gradient(dmet, uvec)
          IN  /\ dmet' = r.obj
              /\ ret' = r.ret
              /\ IF r.ret.raised # ""
                 THEN pc' = "idle" /\ kc' = NoFrame /\ sc' = NoFrame
                 ELSE UNCHANGED <<pc, kc, sc>>
    /\ UNCHANGED <<args, log>>

\* optimize.minimize returns result.x; self_consistent() finishes the pass
minimize_return ==
    /\ pc = "minimize"
    /\ \E x \in TrialVectors(dmet.Nterms) : LoopTail(x)
    /\ UNCHANGED args

\* The user sets single_embedding and SC_maxcycle on the constructed object
Init ==
    /\ \E n \in 1 .. MaxKernelNorbs :
         \E sizes \in Compositions(n) :
           \E sym \in DriverSymmetries(Len(sizes)), cf \in {"FB", "diagF"} :
                args = MakeArgs(sizes, 4, sym, "overlap", cf, SolverStr("RHF"))
    /\ SymmetryConsistent(args)
    /\ \E single_embedding \in BOOLEAN, SC_maxcycle \in 1 .. MaxCycle :
         LET r == DMET_init(args)
         IN  /\ r.raised = ""
             /\ dmet = [r.obj EXCEPT !.single_embedding = single_embedding,
                                     !.SC_maxcycle = SC_maxcycle]
             /\ log = InitLog(r.obj)
    /\ pc = "idle"
    /\ ret = NoRet
    /\ kc = NoFrame
    /\ sc = NoFrame

Next ==
    \/ Call_one_shot
    \/ Call_self_consistent
    \/ nelecs_costfunction
    \/ kernel_fragment
    \/ kernel_return_newton
    \/ kernel_return_one_shot
    \/ newton_return
    \/ newton_raise
    \/ Call_costfunction
    \/ Call_costfunction_gradient
    \/ minimize_return

Spec == Init /\ [][Next]_vars

---------------------------------------------------------------------------
(* The claims about the codec (SpecCodec) *)

\* The orbitals fragment f (counted from 1) labels as its own, in order
FragOrbs(f) ==
    SortSet({o \in Idx(Len(args.impCluster[f])) : At(args.impCluster[f], o) # 0})

\* The block of umat over the orbitals of fragment f
FragBlock(umat, f) ==
    LET orbs == FragOrbs(f)
    IN  [i \in 1 .. Len(orbs), j \in 1 .. Len(orbs) |-> umat[orbs[i], orbs[j]]]

\* Fragments f and g (counted from 1) are declared equivalent
SameLabel(f, g) ==
    CASE args.symmetry.kind = "None" -> f = g
      [] args.symmetry.kind = "Translation" -> TRUE
      [] OTHER -> args.symmetry.labels[f] = args.symmetry.labels[g]

---------------------------------------------------------------------------
(* The claim about the constructor (SpecCtor) *)

\* The four cases in which construction is to fail
InvalidArguments ==
    \/ /\ args.symmetry.kind = "list"
       /\ Len(args.symmetry.labels) # Len(args.impCluster)
    \/ /\ args.symmetry.kind = "Translation"
       /\ args.Norbs % make_imp_size(args.impCluster)[1] # 0
    \/ \E i \in 1 .. Len(args.solver.names) : args.solver.names[i] \notin solver_list
    \/ args.SC_CFtype \notin FitModes

\* C4: once DMET(...) has run on arguments with a symmetry list of the wrong
\* length, a 'Translation' fragment size that does not divide Norbs, an
\* unsupported solver name (alone or anywhere in a list) or an unsupported fit
\* mode, it has raised and there is no object.
C4_ConstructionValidates ==
    (pc # "new" /\ InvalidArguments) =>
        (pc = "init_failed" /\ ~ dmet.constructed)

---------------------------------------------------------------------------
(* The claims about the kernel (SpecKernel) *)

\* C3: no state holds a density matrix, embedding basis, energy or electron
\* count recorded for an irreducible fragment whose solver is DMRG or CCSD:
\* the j-th entries are recorded by the pass for the j-th irreducible fragment.
C3_UnimplementedSolverRaises ==
    \A j \in 1 .. Len(dmet.emb_1RDM) :
        /\ At(dmet.solver, dmet.irred_fragments[j]) \notin {"DMRG", "CCSD"}
        /\ dmet.emb_1RDM[j].frag = dmet.irred_fragments[j]

\* Strictly between the cutoffs 0.01 and 1.99
StrictlyBetween(x) == core_cutoff < x /\ x < TwoElectrons - core_cutoff

\* C5: with the OED decomposition the kernel stops on the occupations only if
\* one of them is strictly between the cutoffs, and a pass that went through
\* had none strictly between them, turned every occupation within 0.01 of 0
\* into 0 and every one within 0.01 of 2 into 2, and gave the cluster
\* Nelecs minus the sum of the snapped occupations, rounded.
C5_OccupationSnapping ==
    /\ (ret.op = "raise" /\ ret.where = "occupation") =>
          \E k \in 1 .. Len(ret.info) : StrictlyBetween(ret.info[k])
    /\ (pc = "kernel" /\ kc.it >= 1 /\ dmet.sd_type = "OED") =>
          /\ \A k \in 1 .. Len(kc.returned) :
                /\ ~ StrictlyBetween(kc.returned[k])
                /\ kc.returned[k] <= core_cutoff => kc.eigenvals[k] = 0
                /\ kc.returned[k] >= TwoElectrons - core_cutoff
                      => kc.eigenvals[k] = TwoElectrons
          /\ kc.Nelec_in_imp * 1000 = dmet.Nelecs * 1000 - SumSeq(kc.eigenvals)

\* C7: after a kernel call that returned (single_embedding False, every solver
\* implemented), every fragment of the full list holds the energy and the
\* electron count computed from the orbitals of a fragment with its own label.
C7_BroadcastOwnLabel ==
    ( /\ ret.op = "kernel" /\ ret.raised = "" /\ ~ ret.single_embedding
      /\ \A i \in 1 .. Len(dmet.solver) : dmet.solver[i] \in Implemented ) =>
        \A f \in 1 .. Len(dmet.symmetry) :
            /\ At(dmet.symmetry, dmet.fragment_energies[f].frag) = dmet.symmetry[f]
            /\ At(dmet.symmetry, dmet.fragment_nelecs[f].frag) = dmet.symmetry[f]

\* C10: after a kernel call with single_embedding False that returned,
\* emb_1RDM and emb_orbs hold one entry per irreducible fragment,
\* fragment_energies and fragment_nelecs one entry per entry of the symmetry
\* list, and every entry was produced by that call.
C10_ResultsReplaced ==
    (ret.op = "kernel" /\ ret.raised = "" /\ ~ ret.single_embedding) =>
        /\ Len(dmet.emb_1RDM) = dmet.irred_size
        /\ Len(dmet.emb_orbs) = dmet.irred_size
        /\ Len(dmet.fragment_energies) = Len(dmet.symmetry)
        /\ Len(dmet.fragment_nelecs) = Len(dmet.symmetry)
        /\ \A j \in 1 .. dmet.irred_size :
              /\ dmet.emb_1RDM[j].call = log.ncalls
              /\ dmet.emb_orbs[j].call = log.ncalls
        /\ \A f \in 1 .. Len(dmet.symmetry) :
              /\ dmet.fragment_energies[f].call = log.ncalls
              /\ dmet.fragment_nelecs[f].call = log.ncalls

\* A second kernel call that returned, for two fragments with one label
C10_Witness ==
    /\ ret.op = "kernel"
    /\ ret.raised = ""
    /\ ~ ret.single_embedding
    /\ log.ncalls >= 2
    /\ dmet.irred_size = 1
    /\ Len(dmet.symmetry) = 2
    /\ Len(dmet.emb_1RDM) = 1
    /\ Len(dmet.fragment_energies) = 2

---------------------------------------------------------------------------
(* The claims about the self-consistent driver (Spec) *)

\* C6: in every cycle of self_consistent after the first, the kernel run by
\* one_shot solves the mean-field problem at the potential accepted at the end
\* of the previous cycle, and optimize.minimize is seeded with a vector that
\* decodes to that potential (both up to the constant shift of the diagonal
\* that line 265 removes).
C6_CycleUsesAcceptedPotential ==
    /\ (pc = "kernel" /\ sc.active /\ sc.cycle >= 1) =>
          GaugeFixed(log.kernel_umat, dmet.Norbs) = sc.umat_old
    /\ (pc = "minimize" /\ sc.active /\ sc.cycle >= 1) =>
          GaugeFixed(uvec2umat(dmet, log.minimize_x0), dmet.Norbs) = sc.umat_old

\* The square of SC_threshold in the scale of the potentials kept by
\* self_consistent()
ThresholdSq == (dmet.SC_threshold * dmet.Norbs) * (dmet.SC_threshold * dmet.Norbs)

\* C8: self_consistent is never in a cycle beyond SC_maxcycle; when it has
\* ended, it ran at most SC_maxcycle cycles and either the last difference is
\* within the threshold or exactly SC_maxcycle cycles were run; and while a
\* cycle after the first runs, the difference of the cycle before it exceeded
\* the threshold.
C8_Termination ==
    /\ sc.active => sc.cycle < dmet.SC_maxcycle
    /\ (ret.op = "self_consistent" /\ ret.raised = "") =>
          /\ ret.cycles <= dmet.SC_maxcycle
          /\ ret.cycles >= 1
          /\ ret.u_diff <= ThresholdSq \/ ret.cycles = dmet.SC_maxcycle
    /\ (sc.active /\ sc.cycle >= 1) => sc.u_diff > ThresholdSq

\* self_consistent ended after two cycles, the second of which changed the
\* potential by more than the threshold
C8_Witness ==
    /\ ret.op = "self_consistent"
    /\ ret.raised = ""
    /\ dmet.SC_damping = 0
    /\ ret.cycles = 2
    /\ dmet.SC_maxcycle = 2
    /\ ret.u_diff > ThresholdSq

\* The fields of the object that an evaluation of a cost function is to leave
\* alone
CostFrame ==
    <<dmet.fragment_energies, dmet.fragment_nelecs, dmet.emb_1RDM, dmet.emb_orbs,
      dmet.chempot, dmet.uvec, dmet.mask, dmet.H1start, dmet.H1row, dmet.H1col>>

\* C9: a step that is an evaluation of costfunction or costfunction_gradient
\* starts no kernel call and changes none of the four result collections, the
\* chemical potential, the stored parameter vector, the mask and the response
\* arrays; and what an evaluation gives back was computed, for every fragment,
\* from the embedding basis and the density matrix of the last kernel call.
C9_CostFunctionsReadOnly ==
    /\ [][ (ret' # ret /\ ret'.op \in {"costfunction", "costfunction_gradient"})
              => /\ CostFrame' = CostFrame
                 /\ log'.ncalls = log.ncalls
                 /\ pc' = pc /\ pc' # "kernel" ]_vars
    /\ [](ret.op = "costfunction" =>
             \A f \in 1 .. Len(ret.val) :
                 /\ ret.val[f].transform_mat.call = log.ncalls
                 /\ ret.val[f].corr_1RDM.call = log.ncalls
                 /\ ret.val[f].transform_mat = dmet.emb_orbs[dmet.inverse_indices[f] + 1]
                 /\ ret.val[f].corr_1RDM = dmet.emb_1RDM[dmet.inverse_indices[f] + 1])

\* In the second cycle of self_consistent the optimizer has evaluated
\* costfunction at a vector that is not the stored one
C9_Witness ==
    /\ ret.op = "costfunction"
    /\ pc = "minimize"
    /\ sc.active
    /\ sc.cycle = 1
    /\ ret.arg # dmet.uvec
    /\ Len(ret.val) >= 1
    /\ log.ncalls = 2
    /\ ret.val[1].transform_mat.call = 2

---------------------------------------------------------------------------
(* The claim about the response operator (SpecCodec) *)

\* The positions stored for parameter k (counted from 1): H1row[i], H1col[i]
\* for H1start[k-1] <= i < H1start[k] in the indices of the source
H1Group(k) ==
    {<<At(dmet.H1row, i), At(dmet.H1col, i)>> :
        i \in At(dmet.H1start, k - 1) .. (At(dmet.H1start, k) - 1)}

\* The k-th unit vector of length n
UnitVector(n, k) == [j \in 1 .. n |-> IF j = k THEN 1 ELSE 0]

---------------------------------------------------------------------------
(* The constructor on fragments in any order: SpecMask *)

\* The label vectors of the fragments 1 .. k when orbital o belongs to
\* fragment owner[o], or to the environment when owner[o] = 0
ClusterOf(owner, n, k) ==
    [f \in 1 .. k |-> [o \in 1 .. n |-> IF owner[o - 1] = f THEN 1 ELSE 0]]

InitMask ==
    /\ \E n \in 1 .. MaxNorbs :
         \E owner \in [Idx(n) -> 0 .. n] :
           \E k \in 1 .. n :
             /\ \A o \in Idx(n) : owner[o] <= k
             /\ \A f \in 1 .. k : \E o \in Idx(n) : owner[o] = f
             /\ \E sym \in CodecSymmetries(k), cf \in FitModes :
                  args = [Norbs |-> n, Nelecs |-> 2,
                          impCluster |-> ClusterOf(owner, n, k),
                          symmetry |-> sym,
                          smith_decomposition_method |-> "OED",
                          SC_CFtype |-> cf, solver |-> SolverStr("RHF")]
    /\ dmet = NoObject
    /\ pc = "new"
    /\ ret = NoRet
    /\ kc = NoFrame
    /\ sc = NoFrame
    /\ log = NoLog

SpecMask == InitMask /\ [][NextCtor]_vars

\* The fragments (counted from 0) that are the first with their label among
\* the fragments the object walks over
FirstFragments ==
    {f \in Idx(dmet.num_impCluster) :
        FirstWithLabel(dmet, At(dmet.symmetry, f)) = f}

\* C12: in a constructed object every True entry (r, c) of the mask has r and
\* c among the orbitals that the label vector of one first fragment of a label
\* marks, and for every such fragment the mask is True on the upper triangle
\* of its block (on its diagonal in the modes diagF and diagFB).
C12_MaskOnFragmentOrbitals ==
    dmet.constructed =>
        /\ \A r, c \in Idx(dmet.Norbs) :
              dmet.mask[r, c] =>
                  \E f \in FirstFragments :
                      /\ At(args.impCluster[f + 1], r) # 0
                      /\ At(args.impCluster[f + 1], c) # 0
        /\ \A f \in FirstFragments :
              LET orbs == FragOrbs(f + 1)
              IN  \A i, j \in 1 .. Len(orbs) :
                     (IF dmet.SC_CFtype \in {"diagF", "diagFB"} THEN i = j ELSE i <= j)
                        => dmet.mask[orbs[i], orbs[j]]

=============================================================================
